---- MODULE Spec2Model ----
(***************************************************************************)
(* Model of modoboa/lib/parameters.py: the in-memory parameter registry    *)
(* (_params, _params_order), the two override tables of the database       *)
(* (Parameter, UserParameter) and every public operation of the module.    *)
(* Python dictionaries are functions, lists are sequences, unicode strings *)
(* that are encoded/decoded are sequences of one-character strings.        *)
(***************************************************************************)
EXTENDS Naturals, Sequences, FiniteSets, TLC

VARIABLES
    params,         \* _params: app -> [options, A, U]
    params_order,   \* _params_order: app -> [A, U] (lists of names)
    Parameter,      \* models.Parameter rows: fullname -> stored (encoded) value
    UserParameter,  \* models.UserParameter rows: <<user, fullname>> -> stored value
    cb_calls,       \* modify_cb invocations made by the last call
    ret,            \* the last call: operation, value returned or exception raised;
                    \* the arguments of a registry call and of a save that passed
                    \* __is_defined, and the row that objects.get found for it
    nops            \* number of calls made so far

vars == <<params, params_order, Parameter, UserParameter, cb_calls, ret, nops>>

----------------------------------------------------------------------------
(* Bounds and input sets *)

MaxOps == 3

\* calls made in a behaviour of LifecycleSpec
MaxLifeOps == 5

Apps == {"a", "a.b"}
Names == {"c", "b.c"}
Users == {"u1", "u2"}
levels == {"A", "U"}
AnyLevel == levels \cup {"X"}

SP == " "
TAB == "\t"
BS == "\\"

\* values saved: plain, with a leading blank, a control character, and the
\* two characters a control character is escaped to
Values == { <<"z">>, <<SP, "z">>, <<TAB>>, <<BS, "t">> }

D1 == <<"d">>
D2 == <<"e">>

\* keyword arguments of register_admin / register_user
Metas ==
    { [k \in {"deflt", "modify_cb"} |-> IF k = "deflt" THEN D1 ELSE "cb"],
      [k \in {"help"} |-> "h"] }

\* keyword arguments of update_admin
Updates == { [k \in {"deflt"} |-> D2] }

EmptyDict == [k \in {} |-> {}]

NeedsMailbox(b) == [k \in {"needs_mailbox"} |-> b]

\* <<aparams_opts, uparams_opts>> of register_app
OptPairs ==
    { <<EmptyDict, EmptyDict>>,
      <<EmptyDict, NeedsMailbox(TRUE)>>,
      <<NeedsMailbox(TRUE), NeedsMailbox(FALSE)>> }
OptNames == {"needs_mailbox", "other"}

has_mailbox(user) == user = "u1"

----------------------------------------------------------------------------
(* Dictionaries *)

Put(d, k, v) == [x \in (DOMAIN d) \cup {k} |-> IF x = k THEN v ELSE d[x]]
Del(d, k) == [x \in (DOMAIN d) \ {k} |-> d[x]]
Merge(d, kw) == [x \in (DOMAIN d) \cup (DOMAIN kw) |-> IF x \in DOMAIN kw THEN kw[x] ELSE d[x]]

\* a call that returns nothing, and the value of a call that raised
None == FALSE
Return(v) == [exc |-> "", val |-> v]
Raise(e) == [exc |-> e, val |-> None]

----------------------------------------------------------------------------
(* Strings: value.encode("unicode_escape").strip() and                     *)
(* p.value.decode("unicode_escape")                                        *)

RECURSIVE Encode(_)
Encode(s) ==
    IF s = <<>> THEN <<>>
    ELSE LET c == Head(s) IN
         (IF c = BS THEN <<BS, BS>>
          ELSE IF c = TAB THEN <<BS, "t">>
          ELSE <<c>>) \o Encode(Tail(s))

IsSpace(c) == c \in {SP, TAB}

RECURSIVE LStrip(_)
LStrip(s) == IF s # <<>> /\ IsSpace(Head(s)) THEN LStrip(Tail(s)) ELSE s

RECURSIVE RStrip(_)
RStrip(s) ==
    IF s # <<>> /\ IsSpace(s[Len(s)]) THEN RStrip(SubSeq(s, 1, Len(s) - 1)) ELSE s

Strip(s) == RStrip(LStrip(s))

DecodeError == <<"UnicodeDecodeError">>

RECURSIVE Decode(_)
Decode(s) ==
    IF s = <<>> THEN <<>>
    ELSE IF Head(s) # BS THEN
        LET r == Decode(Tail(s)) IN IF r = DecodeError THEN r ELSE <<Head(s)>> \o r
    ELSE IF Len(s) = 1 THEN DecodeError
    ELSE LET n == s[2]
             r == Decode(SubSeq(s, 3, Len(s)))
         IN  IF n = BS THEN (IF r = DecodeError THEN r ELSE <<BS>> \o r)
             ELSE IF n = "t" THEN (IF r = DecodeError THEN r ELSE <<TAB>> \o r)
             ELSE LET q == Decode(Tail(s)) IN IF q = DecodeError THEN q ELSE <<BS>> \o q

Stored(value) == Strip(Encode(value))

FullName(app, name) == app \o "." \o name

\* p.value of a row just created by Parameter() / UserParameter(): no value is
\* stored yet, so it differs from every string (section 4.4 of the specification)
NewRowValue == <<"None">>

----------------------------------------------------------------------------
(* Registry *)

\* variant of is_defined that looks the name up at both levels of the namespace
is_defined_any_level(app, level, name) ==
    /\ level \in levels
    /\ app \in DOMAIN params
    /\ \E l \in levels : name \in DOMAIN params[app][l]

is_defined(app, level, name) ==
    ~ ( level \notin levels
        \/ app \notin DOMAIN params
        \/ name \notin DOMAIN params[app][level] )

NewApp(aparams_opts, uparams_opts) ==
    [ options |-> [l \in {x \in levels : (IF x = "A" THEN aparams_opts ELSE uparams_opts) # EmptyDict}
                     |-> IF l = "A" THEN aparams_opts ELSE uparams_opts],
      A |-> EmptyDict,
      U |-> EmptyDict ]

NewOrder == [A |-> <<>>, U |-> <<>>]

\* the registry after register_app(app, aparams_opts, uparams_opts)
RegisterAppParams(p, app, aopts, uopts) ==
    IF app \in DOMAIN p THEN p ELSE Put(p, app, NewApp(aopts, uopts))

\* variant of RegisterAppOrder that keeps the lists a namespace had before it
\* was unregistered
RegisterAppOrder_keep(p, o, app) ==
    IF app \in DOMAIN p \/ app \in DOMAIN o THEN o ELSE Put(o, app, NewOrder)

RegisterAppOrder(p, o, app) ==
    IF app \in DOMAIN p THEN o ELSE Put(o, app, NewOrder)

Init ==
    /\ params = EmptyDict
    /\ params_order = EmptyDict
    /\ Parameter = EmptyDict
    /\ UserParameter = EmptyDict
    /\ cb_calls = <<>>
    /\ ret = [op |-> "import", args |-> <<>>, row |-> <<>>, exc |-> "", val |-> None]
    /\ nops = 0

CalledSave(op, args, row, r) ==
    /\ nops' = nops + 1
    /\ ret' = [op |-> op, args |-> args, row |-> row, exc |-> r.exc, val |-> r.val]

Called(op, args, r) == CalledSave(op, args, <<>>, r)

\* variant of register_app without the has_key test of line 45: the namespace
\* is created anew at every call
register_app_anew(app, aparams_opts, uparams_opts) ==
    /\ Called("register_app", <<app, aparams_opts, uparams_opts>>, Return(None))
    /\ params' = Put(params, app, NewApp(aparams_opts, uparams_opts))
    /\ params_order' = Put(params_order, app, NewOrder)
    /\ cb_calls' = <<>>
    /\ UNCHANGED <<Parameter, UserParameter>>

register_app(app, aparams_opts, uparams_opts) ==
    /\ Called("register_app", <<app, aparams_opts, uparams_opts>>, Return(None))
    /\ params' = RegisterAppParams(params, app, aparams_opts, uparams_opts)
    /\ params_order' = RegisterAppOrder(params, params_order, app)
    /\ cb_calls' = <<>>
    /\ UNCHANGED <<Parameter, UserParameter>>

\* variant of unregister_app that also deletes the admin rows of the namespace
unregister_app_purge(app) ==
    /\ Called("unregister_app", <<app>>, Return(app \in DOMAIN params))
    /\ params' = IF app \in DOMAIN params THEN Del(params, app) ELSE params
    /\ Parameter' = [k \in DOMAIN Parameter \ {FullName(app, n) : n \in Names} |-> Parameter[k]]
    /\ cb_calls' = <<>>
    /\ UNCHANGED <<params_order, UserParameter>>

\* variant of unregister_app that empties the whole registry
unregister_app_all(app) ==
    /\ Called("unregister_app", <<app>>, Return(app \in DOMAIN params))
    /\ params' = IF app \in DOMAIN params THEN EmptyDict ELSE params
    /\ cb_calls' = <<>>
    /\ UNCHANGED <<params_order, Parameter, UserParameter>>

unregister_app(app) ==
    /\ Called("unregister_app", <<app>>, Return(app \in DOMAIN params))
    /\ params' = IF app \in DOMAIN params THEN Del(params, app) ELSE params
    /\ cb_calls' = <<>>
    /\ UNCHANGED <<params_order, Parameter, UserParameter>>

\* variant of register without the has_key test of line 93: the last
\* registration wins
register_last_wins(app, level, name, kwargs) ==
    LET p1 == RegisterAppParams(params, app, EmptyDict, EmptyDict)
        o1 == RegisterAppOrder(params, params_order, app)
        skip == level \notin levels
    IN  /\ Called("register", <<app, level, name, kwargs>>, Return(None))
        /\ params' = IF skip THEN p1
                     ELSE [p1 EXCEPT ![app][level] = Put(@, name, kwargs)]
        /\ params_order' = IF skip THEN o1
                           ELSE [o1 EXCEPT ![app][level] = Append(@, name)]
        /\ cb_calls' = <<>>
        /\ UNCHANGED <<Parameter, UserParameter>>

register(app, level, name, kwargs) ==
    LET p1 == RegisterAppParams(params, app, EmptyDict, EmptyDict)
        o1 == RegisterAppOrder(params, params_order, app)
        skip == level \notin levels \/ name \in DOMAIN p1[app][level]
    IN  /\ Called("register", <<app, level, name, kwargs>>, Return(None))
        /\ params' = IF skip THEN p1
                     ELSE [p1 EXCEPT ![app][level] = Put(@, name, kwargs)]
        /\ params_order' = IF skip THEN o1
                           ELSE [o1 EXCEPT ![app][level] = Append(@, name)]
        /\ cb_calls' = <<>>
        /\ UNCHANGED <<Parameter, UserParameter>>

\* variant of update that replaces the definition by the keyword arguments
update_replace(app, level, name, kwargs) ==
    LET skip == app \notin DOMAIN params \/ level \notin levels
                \/ name \notin DOMAIN params[app][level]
    IN  /\ Called("update", <<app, level, name, kwargs>>, Return(None))
        /\ params' = IF skip THEN params
                     ELSE [params EXCEPT ![app][level][name] = kwargs]
        /\ cb_calls' = <<>>
        /\ UNCHANGED <<params_order, Parameter, UserParameter>>

update(app, level, name, kwargs) ==
    LET skip == app \notin DOMAIN params \/ level \notin levels
                \/ name \notin DOMAIN params[app][level]
    IN  /\ Called("update", <<app, level, name, kwargs>>, Return(None))
        /\ params' = IF skip THEN params
                     ELSE [params EXCEPT ![app][level][name] = Merge(@, kwargs)]
        /\ cb_calls' = <<>>
        /\ UNCHANGED <<params_order, Parameter, UserParameter>>

\* _params[app][level][name], which raises KeyError on a missing key
Def(app, level, name) ==
    IF /\ app \in DOMAIN params
       /\ level \in DOMAIN params[app]
       /\ name \in DOMAIN params[app][level]
    THEN Return(params[app][level][name])
    ELSE Raise("KeyError")

get_param_def_result(app, level, name) ==
    IF ~is_defined(app, level, name) THEN Raise("NotDefined")
    ELSE Def(app, level, name)

----------------------------------------------------------------------------
(* Saving and resolving values *)

\* the row Parameter.objects.get(name=fullname) finds, as a list of 0 or 1 values
Row(table, key) == IF key \in DOMAIN table THEN <<table[key]>> ELSE <<>>

\* p.value when the comparison of line 189 / 210 is made
PValue(table, key) == IF key \in DOMAIN table THEN table[key] ELSE NewRowValue

\* lines 189-194 and 210-215, after __is_defined passed: whether modify_cb is
\* called, its invocations, the table afterwards and the outcome of the call;
\* cb_raises is whether modify_cb raises
CallsBack(table, key, pdef, value) ==
    PValue(table, key) # value /\ "modify_cb" \in DOMAIN pdef

SaveCalls(table, key, pdef, value) ==
    IF CallsBack(table, key, pdef, value)
    THEN << [cb |-> pdef["modify_cb"], value |-> value, row |-> Row(table, key)] >>
    ELSE <<>>

\* variant of SaveTable in which the row is written before modify_cb is called
SaveTable_write_first(table, key, pdef, value, cb_raises) ==
    IF PValue(table, key) = value THEN table
    ELSE Put(table, key, Stored(value))

SaveTable(table, key, pdef, value, cb_raises) ==
    IF PValue(table, key) = value THEN table
    ELSE IF CallsBack(table, key, pdef, value) /\ cb_raises THEN table
    ELSE Put(table, key, Stored(value))

SaveResult(table, key, pdef, value, cb_raises) ==
    IF CallsBack(table, key, pdef, value) /\ cb_raises
    THEN Raise("CallbackError") ELSE Return(TRUE)

\* variant of save_admin that makes the __is_defined test of line 182 after the
\* row is written
save_admin_write_first(name, value, app) ==
    IF ~is_defined(app, "A", name) THEN
        /\ Called("save_admin", <<>>, Raise("NotDefined"))
        /\ cb_calls' = <<>>
        /\ Parameter' = Put(Parameter, FullName(app, name), Stored(value))
        /\ UNCHANGED <<params, params_order, UserParameter>>
    ELSE
        \E cb_raises \in BOOLEAN :
            /\ CalledSave("save_admin", <<name, value, app>>,
                          Row(Parameter, FullName(app, name)),
                          SaveResult(Parameter, FullName(app, name),
                                     get_param_def_result(app, "A", name).val,
                                     value, cb_raises))
            /\ cb_calls' = SaveCalls(Parameter, FullName(app, name),
                                     get_param_def_result(app, "A", name).val, value)
            /\ Parameter' = SaveTable(Parameter, FullName(app, name),
                                      get_param_def_result(app, "A", name).val,
                                      value, cb_raises)
            /\ UNCHANGED <<params, params_order, UserParameter>>

save_admin(name, value, app) ==
    IF ~is_defined(app, "A", name) THEN
        /\ Called("save_admin", <<>>, Raise("NotDefined"))
        /\ cb_calls' = <<>>
        /\ UNCHANGED <<params, params_order, Parameter, UserParameter>>
    ELSE
        \E cb_raises \in BOOLEAN :
            /\ CalledSave("save_admin", <<name, value, app>>,
                          Row(Parameter, FullName(app, name)),
                          SaveResult(Parameter, FullName(app, name),
                                     get_param_def_result(app, "A", name).val,
                                     value, cb_raises))
            /\ cb_calls' = SaveCalls(Parameter, FullName(app, name),
                                     get_param_def_result(app, "A", name).val, value)
            /\ Parameter' = SaveTable(Parameter, FullName(app, name),
                                      get_param_def_result(app, "A", name).val,
                                      value, cb_raises)
            /\ UNCHANGED <<params, params_order, UserParameter>>

\* variant of save_user whose row is found and written by name alone: the value
\* is stored for every user
save_user_unscoped(user, name, value, app) ==
    IF ~is_defined(app, "U", name) THEN
        /\ Called("save_user", <<>>, Raise("NotDefined"))
        /\ cb_calls' = <<>>
        /\ UNCHANGED <<params, params_order, Parameter, UserParameter>>
    ELSE
        /\ CalledSave("save_user", <<user, name, value, app>>,
                      Row(UserParameter, <<user, FullName(app, name)>>),
                      Return(TRUE))
        /\ cb_calls' = <<>>
        /\ UserParameter' =
                [k \in DOMAIN UserParameter \cup {<<u, FullName(app, name)>> : u \in Users} |->
                    IF k[2] = FullName(app, name) THEN Stored(value) ELSE UserParameter[k]]
        /\ UNCHANGED <<params, params_order, Parameter>>

save_user(user, name, value, app) ==
    IF ~is_defined(app, "U", name) THEN
        /\ Called("save_user", <<>>, Raise("NotDefined"))
        /\ cb_calls' = <<>>
        /\ UNCHANGED <<params, params_order, Parameter, UserParameter>>
    ELSE
        \E cb_raises \in BOOLEAN :
            /\ CalledSave("save_user", <<user, name, value, app>>,
                          Row(UserParameter, <<user, FullName(app, name)>>),
                          SaveResult(UserParameter, <<user, FullName(app, name)>>,
                                     get_param_def_result(app, "U", name).val,
                                     value, cb_raises))
            /\ cb_calls' = SaveCalls(UserParameter, <<user, FullName(app, name)>>,
                                     get_param_def_result(app, "U", name).val, value)
            /\ UserParameter' = SaveTable(UserParameter, <<user, FullName(app, name)>>,
                                          get_param_def_result(app, "U", name).val,
                                          value, cb_raises)
            /\ UNCHANGED <<params, params_order, Parameter>>

\* variant of Resolve that has no fallback to deflt: the empty string is
\* returned when there is no row
Resolve_no_fallback(table, key, pdef) ==
    IF key \notin DOMAIN table THEN Return(<<>>)
    ELSE IF Decode(table[key]) = DecodeError THEN Raise("UnicodeDecodeError")
    ELSE Return(Decode(table[key]))

\* lines 224-228 and 254-258, after __is_defined passed
Resolve(table, key, pdef) ==
    IF key \notin DOMAIN table THEN
        IF "deflt" \in DOMAIN pdef THEN Return(pdef["deflt"]) ELSE Raise("KeyError")
    ELSE IF Decode(table[key]) = DecodeError THEN Raise("UnicodeDecodeError")
    ELSE Return(Decode(table[key]))

\* variant of get_admin that looks for the row before it makes the
\* __is_defined test of line 223
get_admin_result_row_first(name, app) ==
    IF FullName(app, name) \in DOMAIN Parameter
    THEN Resolve(Parameter, FullName(app, name), EmptyDict)
    ELSE IF ~is_defined(app, "A", name) THEN Raise("NotDefined")
    ELSE Resolve(Parameter, FullName(app, name), Def(app, "A", name).val)

get_admin_result(name, app) ==
    IF ~is_defined(app, "A", name) THEN Raise("NotDefined")
    ELSE Resolve(Parameter, FullName(app, name), Def(app, "A", name).val)

get_user_result(user, name, app) ==
    IF ~is_defined(app, "U", name) THEN Raise("NotDefined")
    ELSE Resolve(UserParameter, <<user, FullName(app, name)>>, Def(app, "U", name).val)

Query(op, r) ==
    /\ Called(op, <<>>, r)
    /\ cb_calls' = <<>>
    /\ UNCHANGED <<params, params_order, Parameter, UserParameter>>

get_param_def(app, level, name) ==
    Query("get_param_def", get_param_def_result(app, level, name))

get_admin(name, app) == Query("get_admin", get_admin_result(name, app))

get_user(user, name, app) == Query("get_user", get_user_result(user, name, app))

----------------------------------------------------------------------------
(* Enumerations *)

\* code points of the application names, for sorted(_params.keys())
CodePoints(app) ==
    CASE app = "a" -> <<97>>
      [] app = "a.b" -> <<97, 46, 98>>
      [] OTHER -> <<>>

RECURSIVE LexLess(_, _)
LexLess(s, t) ==
    IF t = <<>> THEN FALSE
    ELSE IF s = <<>> THEN TRUE
    ELSE IF Head(s) # Head(t) THEN Head(s) < Head(t)
    ELSE LexLess(Tail(s), Tail(t))

\* variant of sorted that keeps the largest key first
RECURSIVE sorted_descending(_)
sorted_descending(S) ==
    IF S = {} THEN <<>>
    ELSE LET m == CHOOSE x \in S : \A y \in S \ {x} : LexLess(CodePoints(y), CodePoints(x))
         IN  <<m>> \o sorted_descending(S \ {m})

RECURSIVE sorted(_)
sorted(S) ==
    IF S = {} THEN <<>>
    ELSE LET m == CHOOSE x \in S : \A y \in S \ {x} : LexLess(CodePoints(x), CodePoints(y))
         IN  <<m>> \o sorted(S \ {m})

\* the loop over _params_order[app][level]: one newdef per name, or the
\* first exception raised on the way
RECURSIVE ParamList(_, _, _, _)
ParamList(app, level, user, names) ==
    IF names = <<>> THEN Return(<<>>)
    ELSE LET p == Head(names) IN
         IF p \notin DOMAIN params[app][level] THEN Raise("KeyError")
         ELSE LET v == IF level = "A" THEN get_admin_result(p, app)
                       ELSE get_user_result(user, p, app)
                  rest == ParamList(app, level, user, Tail(names))
              IN  IF v.exc # "" THEN v
                  ELSE IF rest.exc # "" THEN rest
                  ELSE Return(<< Put(Put(params[app][level][p], "name", p), "value", v.val) >>
                              \o rest.val)

RECURSIVE AppList(_, _, _)
AppList(level, user, apps) ==
    IF apps = <<>> THEN Return(<<>>)
    ELSE LET app == Head(apps) IN
         IF app \notin DOMAIN params_order THEN Raise("KeyError")
         ELSE LET ps == ParamList(app, level, user, params_order[app][level])
                  rest == AppList(level, user, Tail(apps))
              IN  IF ps.exc # "" THEN ps
                  ELSE IF rest.exc # "" THEN rest
                  ELSE Return(<< [name |-> app, params |-> ps.val] >> \o rest.val)

get_all_admin_parameters_result == AppList("A", "u1", sorted(DOMAIN params))

\* variant of get_all_admin_parameters without the deepcopy of line 241: name
\* and value are written into the stored definitions
get_all_admin_parameters_no_copy ==
    /\ Called("get_all_admin_parameters", <<>>, get_all_admin_parameters_result)
    /\ cb_calls' = <<>>
    /\ params' =
            IF get_all_admin_parameters_result.exc # "" THEN params
            ELSE [app \in DOMAIN params |->
                    [params[app] EXCEPT !["A"] =
                        [p \in DOMAIN params[app]["A"] |->
                            Put(Put(params[app]["A"][p], "name", p),
                                "value", get_admin_result(p, app).val)]]]
    /\ UNCHANGED <<params_order, Parameter, UserParameter>>

get_all_admin_parameters == Query("get_all_admin_parameters", get_all_admin_parameters_result)

get_app_option_result(lvl, name, dflt, app) ==
    IF app \notin DOMAIN params THEN Raise("KeyError")
    ELSE IF lvl \notin DOMAIN params[app]["options"] THEN Return(dflt)
    ELSE IF name \notin DOMAIN params[app]["options"][lvl] THEN Return(dflt)
    ELSE Return(params[app]["options"][lvl][name])

get_app_option(lvl, name, dflt, app) ==
    Query("get_app_option", get_app_option_result(lvl, name, dflt, app))

\* variant of Shown without the needs_mailbox test of lines 272-274
Shown_to_all(user, app) ==
    Cardinality(DOMAIN params[app]["U"]) # 0

\* the applications get_all_user_params does not skip (lines 270-274)
Shown(user, app) ==
    /\ Cardinality(DOMAIN params[app]["U"]) # 0
    /\ ~ ( get_app_option_result("U", "needs_mailbox", FALSE, app).val = TRUE
           /\ ~has_mailbox(user) )

get_all_user_params_result(user) ==
    AppList("U", user, SelectSeq(sorted(DOMAIN params), LAMBDA app : Shown(user, app)))

get_all_user_params(user) == Query("get_all_user_params", get_all_user_params_result(user))

----------------------------------------------------------------------------

Next ==
    \/ nops < MaxOps /\ \E app \in Apps, o \in OptPairs : register_app(app, o[1], o[2])
    \/ nops < MaxOps /\ \E app \in Apps : unregister_app(app)
    \/ nops < MaxOps /\ \E app \in Apps, level \in AnyLevel, name \in Names, kw \in Metas :
            register(app, level, name, kw)
    \/ nops < MaxOps /\ \E app \in Apps, level \in AnyLevel, name \in Names, kw \in Updates :
            update(app, level, name, kw)
    \/ nops < MaxOps /\ \E app \in Apps, level \in AnyLevel, name \in Names :
            get_param_def(app, level, name)
    \/ nops < MaxOps /\ \E app \in Apps, name \in Names, value \in Values :
            save_admin(name, value, app)
    \/ nops < MaxOps /\ \E user \in Users, app \in Apps, name \in Names, value \in Values :
            save_user(user, name, value, app)
    \/ nops < MaxOps /\ \E app \in Apps, name \in Names : get_admin(name, app)
    \/ nops < MaxOps /\ \E user \in Users, app \in Apps, name \in Names :
            get_user(user, name, app)
    \/ nops < MaxOps /\ get_all_admin_parameters
    \/ nops < MaxOps /\ \E user \in Users : get_all_user_params(user)
    \/ nops < MaxOps /\ \E app \in Apps, lvl \in AnyLevel, name \in OptNames, dflt \in BOOLEAN :
            get_app_option(lvl, name, dflt, app)

Spec == Init /\ [][Next]_vars

\* The life of one admin parameter, c of the namespace a, followed for more
\* calls than Spec makes: registered with a deflt, saved, unregistered with its
\* namespace, registered again, read.
LifeMetas == {m \in Metas : "deflt" \in DOMAIN m} \cup Updates

LifecycleNext ==
    \/ nops < MaxLifeOps /\ \E kw \in LifeMetas : register("a", "A", "c", kw)
    \/ nops < MaxLifeOps /\ \E value \in Values : save_admin("c", value, "a")
    \/ nops < MaxLifeOps /\ unregister_app("a")
    \/ nops < MaxLifeOps /\ get_admin("c", "a")

LifecycleSpec == Init /\ [][LifecycleNext]_vars

----------------------------------------------------------------------------
(* Properties *)

AdminKey(app, name) == FullName(app, name)
UserKey(user, app, name) == <<user, FullName(app, name)>>

\* the arguments of the last save, when it passed __is_defined
SavedName == IF ret.op = "save_admin" THEN ret.args[1] ELSE ret.args[2]
SavedValue == IF ret.op = "save_admin" THEN ret.args[2] ELSE ret.args[3]
SavedApp == IF ret.op = "save_admin" THEN ret.args[3] ELSE ret.args[4]

\* C1: round trip. After every save_admin(name, value, app) on a registered
\* admin parameter that returned, get_admin(name, app) returns a string
\* identical to value, whatever blanks and control characters value holds.
C1_RoundTrip ==
    (ret.op = "save_admin" /\ ret.exc = "")
        => get_admin_result(SavedName, SavedApp) = Return(SavedValue)

\* C2: save_admin / save_user called with the value currently stored for the
\* parameter (objects.get found a row, and that row decodes to the value) does
\* not invoke modify_cb.
C2_NoCallbackWhenEqual ==
    ( /\ ret.op \in {"save_admin", "save_user"}
      /\ ret.row # <<>>
      /\ Decode(ret.row[1]) = SavedValue )
        => cb_calls = <<>>

\* C3: save_admin called with a value different from the value currently
\* stored (objects.get found a row that decodes to another value), on a
\* definition that has a modify_cb, invokes modify_cb exactly once, with the new
\* value, while the row still holds the old value.
C3_CallbackOnceBeforeWrite ==
    ( /\ ret.op = "save_admin"
      /\ ret.row # <<>>
      /\ Decode(ret.row[1]) # SavedValue
      /\ "modify_cb" \in DOMAIN params[SavedApp]["A"][SavedName] )
        => /\ Len(cb_calls) = 1
           /\ cb_calls[1].value = SavedValue
           /\ cb_calls[1].row = ret.row

\* C4: a registered parameter with no override row resolves to the deflt of
\* its current metadata, at admin level and, for every user, at user level.
C4_DefaultWhenNoOverride ==
    /\ \A app \in Apps, name \in Names :
            ( /\ is_defined(app, "A", name)
              /\ AdminKey(app, name) \notin DOMAIN Parameter
              /\ "deflt" \in DOMAIN params[app]["A"][name] )
            => get_admin_result(name, app) = Return(params[app]["A"][name]["deflt"])
    /\ \A user \in Users, app \in Apps, name \in Names :
            ( /\ is_defined(app, "U", name)
              /\ UserKey(user, app, name) \notin DOMAIN UserParameter
              /\ "deflt" \in DOMAIN params[app]["U"][name] )
            => get_user_result(user, name, app) = Return(params[app]["U"][name]["deflt"])

\* a get_admin that returned the deflt an update has set, no row existing
C4_Witness ==
    /\ ret.op = "get_admin"
    /\ ret.exc = ""
    /\ ret.val = D2
    /\ Parameter = EmptyDict
    /\ \E app \in DOMAIN params : \E name \in DOMAIN params[app]["A"] :
            /\ "deflt" \in DOMAIN params[app]["A"][name]
            /\ params[app]["A"][name]["deflt"] = D2

\* the value get_app_option is to return for a namespace, registered or not
OptionOrDefault(lvl, name, dflt, app) ==
    IF /\ app \in DOMAIN params
       /\ lvl \in DOMAIN params[app]["options"]
       /\ name \in DOMAIN params[app]["options"][lvl]
    THEN params[app]["options"][lvl][name]
    ELSE dflt

\* C5: get_app_option never fails: for every namespace, registered or not,
\* every level and every option name it returns the stored option when the
\* combination exists and the default otherwise.
C5_OptionNeverFails ==
    \A app \in Apps, lvl \in AnyLevel, name \in OptNames, dflt \in BOOLEAN :
        get_app_option_result(lvl, name, dflt, app)
            = Return(OptionOrDefault(lvl, name, dflt, app))

\* number of occurrences of x in the list s
Count(s, x) == Cardinality({i \in 1..Len(s) : s[i] = x})

\* C6: a register call on a (namespace, level, name) that is already defined,
\* with any metadata, changes nothing: the metadata of the first registration
\* and the ordered name lists stay as they were, and the name occurs once in
\* the list of that namespace and level.
C6_ReRegistrationNoOp ==
    [][ \A app \in Apps, level \in levels, name \in Names :
            ( /\ ret'.op = "register"
              /\ ret'.args[1] = app /\ ret'.args[2] = level /\ ret'.args[3] = name
              /\ is_defined(app, level, name) )
            => /\ ret'.exc = ""
               /\ params' = params
               /\ params_order' = params_order
               /\ Count(params_order'[app][level], name) = 1 ]_vars

\* a register call that returned while the definition it names holds other
\* metadata than the call passed: the call was a re-registration
C6_Witness ==
    /\ ret.op = "register"
    /\ ret.args[2] \in levels
    /\ ret.args[1] \in DOMAIN params
    /\ ret.args[3] \in DOMAIN params[ret.args[1]][ret.args[2]]
    /\ DOMAIN params[ret.args[1]][ret.args[2]][ret.args[3]] # DOMAIN ret.args[4]

\* C7: get_param_def raises NotDefined whenever the level is not A or U, the
\* namespace is not registered, or the name is not registered at that level of
\* the namespace, whatever is registered at the other level.
C7_NotDefined ==
    \A app \in Apps, level \in AnyLevel, name \in Names :
        ( \/ level \notin levels
          \/ app \notin DOMAIN params
          \/ name \notin DOMAIN params[app][level] )
        => get_param_def_result(app, level, name).exc = "NotDefined"

\* a get_param_def that raised NotDefined, in a state where a name is
\* registered at one level of a namespace only and is not defined at the other
C7_Witness ==
    /\ ret.op = "get_param_def"
    /\ ret.exc = "NotDefined"
    /\ \E app \in DOMAIN params : \E name \in DOMAIN params[app]["U"] :
            /\ name \notin DOMAIN params[app]["A"]
            /\ get_param_def_result(app, "A", name).exc = "NotDefined"
            /\ get_param_def_result(app, "U", name).exc = ""

\* the names listed for a namespace in the value val of
\* get_all_admin_parameters, in order; the empty list for a namespace that is
\* not listed
ListedNames(val, app) ==
    IF \E i \in 1..Len(val) : val[i].name = app
    THEN LET i == CHOOSE i \in 1..Len(val) : val[i].name = app
         IN  [k \in 1..Len(val[i].params) |-> val[i].params[k]["name"]]
    ELSE <<>>

\* what get_all_admin_parameters returns, when it returns: the registered
\* namespaces in increasing lexicographic order, and for each its admin
\* parameters, all of them, as metadata + name + the value get_admin resolves
AdminListingSorted ==
    \A r \in {get_all_admin_parameters_result} :
        r.exc = "" =>
            /\ {r.val[i].name : i \in 1..Len(r.val)} = DOMAIN params
            /\ \A i, j \in 1..Len(r.val) :
                    i < j => LexLess(CodePoints(r.val[i].name), CodePoints(r.val[j].name))
            /\ \A i \in 1..Len(r.val) : \A k \in 1..Len(r.val[i].params) :
                    \A e \in {r.val[i].params[k]} : \A v \in {get_admin_result(e["name"], r.val[i].name)} :
                        /\ is_defined(r.val[i].name, "A", e["name"])
                        /\ v.exc = ""
                        /\ e["value"] = v.val
                        /\ \A key \in DOMAIN params[r.val[i].name]["A"][e["name"]] \ {"name", "value"} :
                                e[key] = params[r.val[i].name]["A"][e["name"]][key]
            /\ \A app \in DOMAIN params : \A l \in {ListedNames(r.val, app)} :
                    /\ l = params_order[app]["A"]
                    /\ {l[k] : k \in 1..Len(l)} = DOMAIN params[app]["A"]

\* the list the listing follows is the order of registration: a step that
\* registers a new admin parameter appends its name to the list of its
\* namespace, and any other step leaves the list of a namespace as it was
\* (empty for a namespace the step created)
AdminListingOrder ==
    \A app \in DOMAIN params' :
        LET before == IF app \in DOMAIN params THEN params_order[app]["A"] ELSE <<>>
            registers == /\ ret'.op = "register"
                         /\ ret'.args[1] = app
                         /\ ret'.args[2] = "A"
                         /\ ~is_defined(app, "A", ret'.args[3])
        IN  params_order'[app]["A"] =
                IF registers THEN Append(before, ret'.args[3]) ELSE before

\* C8: get_all_admin_parameters lists the namespaces in lexicographically
\* sorted order and, within each namespace, its admin parameters in the order
\* in which they were registered (the order of the namespace's list, which
\* every registration appends to), each with the value get_admin resolves.
C8_GetAllAdmin == []AdminListingSorted /\ [][AdminListingOrder]_vars

\* get_all_admin_parameters returned two parameters of one namespace,
\* registered in an order that is not the alphabetical one
C8_Witness ==
    /\ ret.op = "get_all_admin_parameters"
    /\ ret.exc = ""
    /\ Len(ret.val) = 1
    /\ Len(ret.val[1].params) = 2
    /\ ret.val[1].params[1]["name"] = "c"
    /\ ret.val[1].params[2]["name"] = "b.c"

\* the user-level needs_mailbox option of a namespace is true
NeedsMailboxSet(app) ==
    /\ "U" \in DOMAIN params[app]["options"]
    /\ "needs_mailbox" \in DOMAIN params[app]["options"]["U"]
    /\ params[app]["options"]["U"]["needs_mailbox"] = TRUE

\* C9: get_all_user_params(user), when it returns, contains a namespace if
\* and only if the namespace has at least one user-level parameter and its
\* user-level needs_mailbox option is not true or the user has a mailbox.
C9_UserListing ==
    \A user \in Users :
        LET r == get_all_user_params_result(user) IN
        r.exc = "" =>
            \A app \in Apps :
                (\E i \in 1..Len(r.val) : r.val[i].name = app)
                    <=> ( /\ app \in DOMAIN params
                          /\ DOMAIN params[app]["U"] # {}
                          /\ (~NeedsMailboxSet(app) \/ has_mailbox(user)) )

\* get_all_user_params returned no namespace although a namespace has a user
\* parameter: its needs_mailbox option is set and the user has no mailbox
C9_Witness ==
    /\ ret.op = "get_all_user_params"
    /\ ret.exc = ""
    /\ ret.val = <<>>
    /\ \E app \in DOMAIN params :
            /\ DOMAIN params[app]["U"] # {}
            /\ NeedsMailboxSet(app)
            /\ get_all_user_params_result("u1").exc = ""
            /\ Len(get_all_user_params_result("u1").val) = 1

\* C10: unregister_app(app) returns whether the namespace was registered;
\* afterwards the namespace is gone with its definitions and options (every
\* get_param_def on it raises NotDefined), every other namespace is as it was,
\* and the rows of Parameter and UserParameter are unchanged.
C10_Unregister ==
    [][ \A app \in Apps :
            (ret'.op = "unregister_app" /\ ret'.args[1] = app) =>
                /\ ret'.exc = ""
                /\ ret'.val = (app \in DOMAIN params)
                /\ app \notin DOMAIN params'
                /\ \A level \in AnyLevel, name \in Names :
                        get_param_def_result(app, level, name)'.exc = "NotDefined"
                /\ DOMAIN params' = DOMAIN params \ {app}
                /\ \A other \in DOMAIN params' :
                        /\ params'[other] = params[other]
                        /\ params_order'[other] = params_order[other]
                /\ Parameter' = Parameter
                /\ UserParameter' = UserParameter ]_vars

\* an unregister_app that removed a namespace for which a row had been saved
C10_Witness ==
    /\ ret.op = "unregister_app"
    /\ ret.val = TRUE
    /\ ret.args[1] \notin DOMAIN params
    /\ \/ DOMAIN Parameter # {}
       \/ DOMAIN UserParameter # {}

\* C11: a save_admin on a parameter that is not registered at admin level
\* raises NotDefined (one that does not was on a registered parameter), and a
\* save_admin that raised NotDefined created or modified no row and invoked no
\* modify_cb.
C11_SaveUndefined ==
    [][ ret'.op = "save_admin" =>
            IF ret'.exc = "NotDefined"
            THEN /\ Parameter' = Parameter
                 /\ UserParameter' = UserParameter
                 /\ cb_calls' = <<>>
            ELSE \E app \in Apps, name \in Names :
                    /\ ret'.args[1] = name
                    /\ ret'.args[3] = app
                    /\ is_defined(app, "A", name) ]_vars

\* a save_admin that raised NotDefined while no admin parameter is registered
\* at all, a user parameter with a modify_cb is, and a row of it has been saved
C11_Witness ==
    /\ ret.op = "save_admin"
    /\ ret.exc = "NotDefined"
    /\ \A app \in Apps, name \in Names : ~is_defined(app, "A", name)
    /\ \E app \in DOMAIN params : \E name \in DOMAIN params[app]["U"] :
            "modify_cb" \in DOMAIN params[app]["U"][name]
    /\ DOMAIN UserParameter # {}
    /\ Parameter = EmptyDict

\* C12: in every state, get_admin and get_user on a parameter that is not
\* registered at the requested level raise NotDefined, whether or not a row
\* with its full name exists.
C12_GetUndefined ==
    /\ \A app \in Apps, name \in Names :
            ~is_defined(app, "A", name)
                => get_admin_result(name, app).exc = "NotDefined"
    /\ \A user \in Users, app \in Apps, name \in Names :
            ~is_defined(app, "U", name)
                => get_user_result(user, name, app).exc = "NotDefined"

\* a get_admin that raised NotDefined while a row named a.b.c exists, the full
\* name of parameter b.c of the namespace a, which is not registered
C12_Witness ==
    /\ ret.op = "get_admin"
    /\ ret.exc = "NotDefined"
    /\ "a" \notin DOMAIN params
    /\ FullName("a", "b.c") \in DOMAIN Parameter
    /\ get_admin_result("b.c", "a").exc = "NotDefined"

\* C13: register_app on a namespace that already exists, created by
\* register_app or by a parameter registration, changes nothing: definitions,
\* ordered name lists and options are as before, the options of the call are
\* not stored, and get_app_option returns what it returned before.
C13_RegisterAppNoOp ==
    [][ \A app \in Apps :
            ( /\ ret'.op = "register_app"
              /\ ret'.args[1] = app
              /\ app \in DOMAIN params )
            => /\ ret'.exc = ""
               /\ params' = params
               /\ params_order' = params_order
               /\ \A lvl \in AnyLevel, name \in OptNames, dflt \in BOOLEAN :
                    get_app_option_result(lvl, name, dflt, app)'
                        = get_app_option_result(lvl, name, dflt, app) ]_vars

\* a register_app that returned on a namespace that holds a parameter and
\* whose options are not the ones the call passed
C13_Witness ==
    /\ ret.op = "register_app"
    /\ ret.args[1] \in DOMAIN params
    /\ DOMAIN params[ret.args[1]]["A"] \cup DOMAIN params[ret.args[1]]["U"] # {}
    /\ DOMAIN params[ret.args[1]]["options"] # DOMAIN NewApp(ret.args[2], ret.args[3])["options"]

\* C14: a register call with a level that is neither A nor U raises nothing
\* and leaves the whole registry as it was, the set of registered namespaces
\* included, whether its namespace is registered or not.
C14_InvalidLevelIgnored ==
    [][ (ret'.op = "register" /\ ret'.args[2] \notin levels)
            => /\ ret'.exc = ""
               /\ params' = params
               /\ params_order' = params_order
               /\ DOMAIN params' = DOMAIN params ]_vars

\* C15: an update call on a registered definition sets exactly the keys it
\* passes to the values it passes and keeps every other key, the ordered name
\* lists, the options and every other definition; on an unknown namespace,
\* level or name it raises nothing, changes nothing and creates neither the
\* namespace nor the definition.
C15_UpdateMerges ==
    [][ \A app \in Apps, level \in AnyLevel, name \in Names :
            ( /\ ret'.op = "update"
              /\ ret'.args[1] = app /\ ret'.args[2] = level /\ ret'.args[3] = name )
            => /\ ret'.exc = ""
               /\ params_order' = params_order
               /\ Parameter' = Parameter
               /\ UserParameter' = UserParameter
               /\ IF is_defined(app, level, name)
                  THEN /\ DOMAIN params' = DOMAIN params
                       /\ \A a2 \in DOMAIN params :
                            /\ params'[a2]["options"] = params[a2]["options"]
                            /\ \A l2 \in levels :
                                 /\ DOMAIN params'[a2][l2] = DOMAIN params[a2][l2]
                                 /\ \A n2 \in DOMAIN params[a2][l2] :
                                        <<a2, l2, n2>> # <<app, level, name>>
                                            => params'[a2][l2][n2] = params[a2][l2][n2]
                       /\ DOMAIN params'[app][level][name]
                            = DOMAIN params[app][level][name] \cup DOMAIN ret'.args[4]
                       /\ \A k \in DOMAIN ret'.args[4] :
                            params'[app][level][name][k] = ret'.args[4][k]
                       /\ \A k \in DOMAIN params[app][level][name] \ DOMAIN ret'.args[4] :
                            params'[app][level][name][k] = params[app][level][name][k]
                  ELSE params' = params ]_vars

\* an update that returned on a definition that now holds the deflt the call
\* passed and a key the call did not pass
C15_Witness ==
    /\ ret.op = "update"
    /\ is_defined(ret.args[1], ret.args[2], ret.args[3])
    /\ \A k \in DOMAIN ret.args[4] :
            /\ k \in DOMAIN params[ret.args[1]][ret.args[2]][ret.args[3]]
            /\ params[ret.args[1]][ret.args[2]][ret.args[3]][k] = ret.args[4][k]
    /\ DOMAIN params[ret.args[1]][ret.args[2]][ret.args[3]] \ DOMAIN ret.args[4] # {}

\* C16: user overrides are scoped by user and apart from admin overrides: a
\* save_user(user, name, value, app) changes at most the row keyed
\* <<user, app.name>>; get_user for every other user and get_admin, for every
\* namespace and name, return what they returned before.
C16_UserScoped ==
    [][ ret'.op = "save_user" =>
            /\ Parameter' = Parameter
            /\ params' = params
            /\ IF ret'.exc = "NotDefined"
               THEN UserParameter' = UserParameter
               ELSE \A user \in Users, app \in Apps, name \in Names :
                      ( ret'.args[1] = user /\ ret'.args[2] = name /\ ret'.args[4] = app )
                      => /\ is_defined(app, "U", name)
                         /\ DOMAIN UserParameter' \ {UserKey(user, app, name)}
                                = DOMAIN UserParameter \ {UserKey(user, app, name)}
                         /\ \A k \in DOMAIN UserParameter \ {UserKey(user, app, name)} :
                                UserParameter'[k] = UserParameter[k]
                         /\ \A u2 \in Users \ {user}, a2 \in Apps, n2 \in Names :
                                /\ get_user_result(u2, n2, a2)'.exc = get_user_result(u2, n2, a2).exc
                                /\ get_user_result(u2, n2, a2)'.val = get_user_result(u2, n2, a2).val
                         /\ \A a2 \in Apps, n2 \in Names :
                                /\ get_admin_result(n2, a2)'.exc = get_admin_result(n2, a2).exc
                                /\ get_admin_result(n2, a2)'.val = get_admin_result(n2, a2).val ]_vars

\* a save_user that wrote the row of its user for a name that is registered at
\* both levels, no other user and no admin row existing
C16_Witness ==
    /\ ret.op = "save_user"
    /\ ret.exc = ""
    /\ DOMAIN UserParameter = {UserKey(ret.args[1], ret.args[4], ret.args[2])}
    /\ Parameter = EmptyDict
    /\ is_defined(ret.args[4], "A", ret.args[2])
    /\ get_user_result(ret.args[1], ret.args[2], ret.args[4]).exc = ""
    /\ get_user_result(ret.args[1], ret.args[2], ret.args[4]).val \in Values

C18_OrderMatchesDefinitions ==
    /\ \A app \in DOMAIN params :
            /\ app \in DOMAIN params_order
            /\ \A level \in levels :
                    /\ {params_order[app][level][i] : i \in 1..Len(params_order[app][level])}
                            = DOMAIN params[app][level]
                    /\ \A i, j \in 1..Len(params_order[app][level]) :
                            i # j => params_order[app][level][i] # params_order[app][level][j]
    /\ get_all_admin_parameters_result.exc # "NotDefined"
    /\ \A user \in Users : get_all_user_params_result(user).exc # "NotDefined"

\* a registered namespace with a parameter, beside the list left behind by a
\* namespace that was unregistered after a parameter was registered in it
C18_Witness ==
    /\ \E app \in DOMAIN params_order \ DOMAIN params :
            Len(params_order[app]["A"]) + Len(params_order[app]["U"]) > 0
    /\ \E app \in DOMAIN params :
            Len(params_order[app]["A"]) + Len(params_order[app]["U"]) > 0

\* C20: when modify_cb raises during save_admin or save_user, the exception
\* reaches the caller and both tables are left as they were before the call:
\* no row is created, no stored value is changed, and get_admin / get_user
\* return afterwards what they returned before.
C20_CallbackFailure ==
    [][ (ret'.op \in {"save_admin", "save_user"} /\ ret'.exc = "CallbackError") =>
            /\ Len(cb_calls') = 1
            /\ Parameter' = Parameter
            /\ UserParameter' = UserParameter
            /\ \A app \in Apps, name \in Names :
                    /\ get_admin_result(name, app)'.exc = get_admin_result(name, app).exc
                    /\ get_admin_result(name, app)'.val = get_admin_result(name, app).val
                    /\ \A user \in Users :
                        /\ get_user_result(user, name, app)'.exc = get_user_result(user, name, app).exc
                        /\ get_user_result(user, name, app)'.val = get_user_result(user, name, app).val
      ]_vars

\* a save_admin of a new value that ended with the exception of modify_cb,
\* the row still holding the value saved earlier
C20_Witness ==
    /\ ret.op = "save_admin"
    /\ ret.exc = "CallbackError"
    /\ ret.row # <<>>
    /\ Decode(ret.row[1]) # ret.args[2]
    /\ AdminKey(ret.args[3], ret.args[1]) \in DOMAIN Parameter
    /\ Parameter[AdminKey(ret.args[3], ret.args[1])] = ret.row[1]
    /\ get_admin_result(ret.args[1], ret.args[3]).val = Decode(ret.row[1])

====
